---- MODULE Spec2Model ----
(***************************************************************************)
(* coinmcp7 MCP server (src/server.py): 27 generated tool handlers, each   *)
(* a thin proxy of one CoinMarketCap REST endpoint behind the D402         *)
(* payment decorator.  The model follows one tool invocation from the      *)
(* arrival of the request, through the payment gate, credential            *)
(* resolution, the construction of the query map and headers, the single   *)
(* outbound GET and the mapping of its outcome to the returned object.     *)
(***************************************************************************)
EXTENDS Integers, Sequences, FiniteSets, TLC

(***************************************************************************)
(* Bounds of the model.                                                    *)
(***************************************************************************)
\* largest number of arguments a caller supplies explicitly in one call
MaxArgs == 2

\* number of tool calls the server has in progress at the same time
NumInv == 2

(***************************************************************************)
(* Python values.  Every value carries its type tag first, so that the     *)
(* native boolean True, the text "True" and the text "true" are three      *)
(* different values, as they are in the program.                           *)
(***************************************************************************)
PyNone == [t |-> "none", v |-> "None"]

PyStr(s) == [t |-> "str", v |-> s]

PyInt(i) == [t |-> "int", v |-> i]

PyBool(b) == [t |-> "bool", v |-> b]

\* str(x), on the values a boolean parameter can hold
PyStrOf(x) ==
  CASE x.t = "str"  -> x
    [] x.t = "bool" -> PyStr(IF x.v THEN "True" ELSE "False")
    [] x.t = "none" -> PyStr("None")

\* s.lower() on the texts str() can produce; every other text of the model
\* is lower case already
PyLower(x) ==
  CASE x.v = "True"  -> PyStr("true")
    [] x.v = "False" -> PyStr("false")
    [] x.v = "None"  -> PyStr("none")
    [] x.v = "TRUE"  -> PyStr("true")
    [] OTHER         -> x

TruthyUnlessNone(x) == x.t # "none"

\* truth value of x in "if x:"
Truthy(x) ==
  CASE x.t = "none" -> FALSE
    [] x.t = "str"  -> x.v # ""
    [] x.t = "bool" -> x.v
    [] x.t = "int"  -> x.v # 0

(***************************************************************************)
(* The tool catalog: one entry per decorated handler of src/server.py.     *)
(*   gated    the handler carries @require_payment_for_tool                *)
(*   price    amount of the TokenAmount declared on the decorator          *)
(*   timeout  the timeout passed to requests.get                           *)
(*   url      the fixed URL assigned in the handler body                   *)
(*   endpoint the "endpoint" text of the handler's error envelope          *)
(*   params   the declared parameters in signature order: annotation       *)
(*            (Optional[] stripped), default, and whether the query map    *)
(*            is built from str(p).lower() instead of p                    *)
(***************************************************************************)
Catalog ==
  ("coinmarketcap_id_map" :> [
      gated |-> TRUE, price |-> "10000", timeout |-> 30,
      url |-> [scheme |-> "https", host |-> "pro-api.coinmarketcap.com", path |-> "/v1/cryptocurrency/map"],
      endpoint |-> "/v1/cryptocurrency/map",
      params |-> <<
        [name |-> "listing_status", type |-> "str", default |-> PyStr("active"), lowered |-> FALSE],
        [name |-> "start", type |-> "int", default |-> PyInt(1), lowered |-> FALSE],
        [name |-> "limit", type |-> "int", default |-> PyNone, lowered |-> FALSE],
        [name |-> "sort", type |-> "str", default |-> PyStr("id"), lowered |-> FALSE],
        [name |-> "symbol", type |-> "str", default |-> PyNone, lowered |-> FALSE],
        [name |-> "aux", type |-> "str", default |-> PyStr("platform,first_historical_data,last_historical_data,is_active"), lowered |-> FALSE]
      >>])
  @@ ("exchange_assets" :> [
      gated |-> TRUE, price |-> "10000", timeout |-> 30,
      url |-> [scheme |-> "https", host |-> "pro-api.coinmarketcap.com", path |-> "/v1/exchange/assets"],
      endpoint |-> "/v1/exchange/assets",
      params |-> <<
        [name |-> "id", type |-> "str", default |-> PyNone, lowered |-> FALSE]
      >>])
  @@ ("coinmarketcap_id_map_10a0" :> [
      gated |-> TRUE, price |-> "10000", timeout |-> 30,
      url |-> [scheme |-> "https", host |-> "pro-api.coinmarketcap.com", path |-> "/v1/exchange/map"],
      endpoint |-> "/v1/exchange/map",
      params |-> <<
        [name |-> "listing_status", type |-> "str", default |-> PyStr("active"), lowered |-> FALSE],
        [name |-> "slug", type |-> "str", default |-> PyNone, lowered |-> FALSE],
        [name |-> "start", type |-> "int", default |-> PyInt(1), lowered |-> FALSE],
        [name |-> "limit", type |-> "int", default |-> PyNone, lowered |-> FALSE],
        [name |-> "sort", type |-> "str", default |-> PyStr("id"), lowered |-> FALSE],
        [name |-> "aux", type |-> "str", default |-> PyStr("first_historical_data,last_historical_data,is_active"), lowered |-> FALSE],
        [name |-> "crypto_id", type |-> "str", default |-> PyNone, lowered |-> FALSE]
      >>])
  @@ ("coinmarketcap_id_map_0es7" :> [
      gated |-> TRUE, price |-> "10000", timeout |-> 30,
      url |-> [scheme |-> "https", host |-> "pro-api.coinmarketcap.com", path |-> "/v1/fiat/map"],
      endpoint |-> "/v1/fiat/map",
      params |-> <<
        [name |-> "start", type |-> "int", default |-> PyInt(1), lowered |-> FALSE],
        [name |-> "limit", type |-> "int", default |-> PyNone, lowered |-> FALSE],
        [name |-> "sort", type |-> "str", default |-> PyStr("id"), lowered |-> FALSE],
        [name |-> "include_metals", type |-> "bool", default |-> PyBool(FALSE), lowered |-> TRUE]
      >>])
  @@ ("key_info" :> [
      gated |-> TRUE, price |-> "10000", timeout |-> 30,
      url |-> [scheme |-> "https", host |-> "pro-api.coinmarketcap.com", path |-> "/v1/key/info"],
      endpoint |-> "/v1/key/info",
      params |-> << >>])
  @@ ("postman_conversion_v1" :> [
      gated |-> TRUE, price |-> "10000", timeout |-> 30,
      url |-> [scheme |-> "https", host |-> "pro-api.coinmarketcap.com", path |-> "/v1/tools/postman"],
      endpoint |-> "/v1/tools/postman",
      params |-> << >>])
  @@ ("cmc_crypto_fear_and_greed_historical" :> [
      gated |-> TRUE, price |-> "10000", timeout |-> 30,
      url |-> [scheme |-> "https", host |-> "pro-api.coinmarketcap.com", path |-> "/v3/fear-and-greed/historical"],
      endpoint |-> "/v3/fear-and-greed/historical",
      params |-> <<
        [name |-> "start", type |-> "int", default |-> PyInt(1), lowered |-> FALSE],
        [name |-> "limit", type |-> "int", default |-> PyInt(50), lowered |-> FALSE]
      >>])
  @@ ("cmc_crypto_fear_and_greed_latest" :> [
      gated |-> TRUE, price |-> "10000", timeout |-> 30,
      url |-> [scheme |-> "https", host |-> "pro-api.coinmarketcap.com", path |-> "/v3/fear-and-greed/latest"],
      endpoint |-> "/v3/fear-and-greed/latest",
      params |-> << >>])
  @@ ("listings_latest" :> [
      gated |-> TRUE, price |-> "10000", timeout |-> 30,
      url |-> [scheme |-> "https", host |-> "pro-api.coinmarketcap.com", path |-> "/v1/cryptocurrency/listings/latest"],
      endpoint |-> "/v1/cryptocurrency/listings/latest",
      params |-> <<
        [name |-> "start", type |-> "int", default |-> PyInt(1), lowered |-> FALSE],
        [name |-> "limit", type |-> "int", default |-> PyInt(100), lowered |-> FALSE],
        [name |-> "price_min", type |-> "float", default |-> PyNone, lowered |-> FALSE],
        [name |-> "price_max", type |-> "float", default |-> PyNone, lowered |-> FALSE],
        [name |-> "market_cap_min", type |-> "float", default |-> PyNone, lowered |-> FALSE],
        [name |-> "market_cap_max", type |-> "float", default |-> PyNone, lowered |-> FALSE],
        [name |-> "volume_24h_min", type |-> "float", default |-> PyNone, lowered |-> FALSE],
        [name |-> "volume_24h_max", type |-> "float", default |-> PyNone, lowered |-> FALSE],
        [name |-> "circulating_supply_min", type |-> "float", default |-> PyNone, lowered |-> FALSE],
        [name |-> "circulating_supply_max", type |-> "float", default |-> PyNone, lowered |-> FALSE],
        [name |-> "percent_change_24h_min", type |-> "float", default |-> PyNone, lowered |-> FALSE],
        [name |-> "percent_change_24h_max", type |-> "float", default |-> PyNone, lowered |-> FALSE],
        [name |-> "self_reported_circulating_supply_min", type |-> "float", default |-> PyNone, lowered |-> FALSE],
        [name |-> "self_reported_circulating_supply_max", type |-> "float", default |-> PyNone, lowered |-> FALSE],
        [name |-> "self_reported_market_cap_min", type |-> "float", default |-> PyNone, lowered |-> FALSE],
        [name |-> "self_reported_market_cap_max", type |-> "float", default |-> PyNone, lowered |-> FALSE],
        [name |-> "unlocked_market_cap_min", type |-> "float", default |-> PyNone, lowered |-> FALSE],
        [name |-> "unlocked_market_cap_max", type |-> "float", default |-> PyNone, lowered |-> FALSE],
        [name |-> "unlocked_circulating_supply_min", type |-> "float", default |-> PyNone, lowered |-> FALSE],
        [name |-> "unlocked_circulating_supply_max", type |-> "float", default |-> PyNone, lowered |-> FALSE],
        [name |-> "convert", type |-> "str", default |-> PyNone, lowered |-> FALSE],
        [name |-> "convert_id", type |-> "str", default |-> PyNone, lowered |-> FALSE],
        [name |-> "sort", type |-> "str", default |-> PyStr("market_cap"), lowered |-> FALSE],
        [name |-> "sort_dir", type |-> "str", default |-> PyNone, lowered |-> FALSE],
        [name |-> "cryptocurrency_type", type |-> "str", default |-> PyStr("all"), lowered |-> FALSE],
        [name |-> "tag", type |-> "str", default |-> PyStr("all"), lowered |-> FALSE],
        [name |-> "aux", type |-> "str", default |-> PyStr("num_market_pairs,cmc_rank,date_added,tags,platform,max_supply,circulating_supply,total_supply"), lowered |-> FALSE]
      >>])
  @@ ("listings_new" :> [
      gated |-> TRUE, price |-> "10000", timeout |-> 30,
      url |-> [scheme |-> "https", host |-> "pro-api.coinmarketcap.com", path |-> "/v1/cryptocurrency/listings/new"],
      endpoint |-> "/v1/cryptocurrency/listings/new",
      params |-> <<
        [name |-> "start", type |-> "int", default |-> PyInt(1), lowered |-> FALSE],
        [name |-> "limit", type |-> "int", default |-> PyInt(100), lowered |-> FALSE],
        [name |-> "convert", type |-> "str", default |-> PyNone, lowered |-> FALSE],
        [name |-> "convert_id", type |-> "str", default |-> PyNone, lowered |-> FALSE],
        [name |-> "sort_dir", type |-> "str", default |-> PyNone, lowered |-> FALSE]
      >>])
  @@ ("trending_gainers_losers" :> [
      gated |-> TRUE, price |-> "10000", timeout |-> 30,
      url |-> [scheme |-> "https", host |-> "pro-api.coinmarketcap.com", path |-> "/v1/cryptocurrency/trending/gainers-losers"],
      endpoint |-> "/v1/cryptocurrency/trending/gainers-losers",
      params |-> <<
        [name |-> "start", type |-> "int", default |-> PyInt(1), lowered |-> FALSE],
        [name |-> "limit", type |-> "int", default |-> PyInt(100), lowered |-> FALSE],
        [name |-> "time_period", type |-> "str", default |-> PyStr("24h"), lowered |-> FALSE],
        [name |-> "convert", type |-> "str", default |-> PyNone, lowered |-> FALSE],
        [name |-> "convert_id", type |-> "str", default |-> PyNone, lowered |-> FALSE],
        [name |-> "sort", type |-> "str", default |-> PyStr("percent_change_24h"), lowered |-> FALSE],
        [name |-> "sort_dir", type |-> "str", default |-> PyNone, lowered |-> FALSE]
      >>])
  @@ ("trending_latest" :> [
      gated |-> TRUE, price |-> "10000", timeout |-> 30,
      url |-> [scheme |-> "https", host |-> "pro-api.coinmarketcap.com", path |-> "/v1/cryptocurrency/trending/latest"],
      endpoint |-> "/v1/cryptocurrency/trending/latest",
      params |-> <<
        [name |-> "start", type |-> "int", default |-> PyInt(1), lowered |-> FALSE],
        [name |-> "limit", type |-> "int", default |-> PyInt(100), lowered |-> FALSE],
        [name |-> "time_period", type |-> "str", default |-> PyStr("24h"), lowered |-> FALSE],
        [name |-> "convert", type |-> "str", default |-> PyNone, lowered |-> FALSE],
        [name |-> "convert_id", type |-> "str", default |-> PyNone, lowered |-> FALSE]
      >>])
  @@ ("trending_most_visited" :> [
      gated |-> TRUE, price |-> "10000", timeout |-> 30,
      url |-> [scheme |-> "https", host |-> "pro-api.coinmarketcap.com", path |-> "/v1/cryptocurrency/trending/most-visited"],
      endpoint |-> "/v1/cryptocurrency/trending/most-visited",
      params |-> <<
        [name |-> "start", type |-> "int", default |-> PyInt(1), lowered |-> FALSE],
        [name |-> "limit", type |-> "int", default |-> PyInt(100), lowered |-> FALSE],
        [name |-> "time_period", type |-> "str", default |-> PyStr("24h"), lowered |-> FALSE],
        [name |-> "convert", type |-> "str", default |-> PyNone, lowered |-> FALSE],
        [name |-> "convert_id", type |-> "str", default |-> PyNone, lowered |-> FALSE]
      >>])
  @@ ("market_pairs_latest" :> [
      gated |-> TRUE, price |-> "10000", timeout |-> 30,
      url |-> [scheme |-> "https", host |-> "pro-api.coinmarketcap.com", path |-> "/v1/exchange/market-pairs/latest"],
      endpoint |-> "/v1/exchange/market-pairs/latest",
      params |-> <<
        [name |-> "id", type |-> "str", default |-> PyNone, lowered |-> FALSE],
        [name |-> "slug", type |-> "str", default |-> PyNone, lowered |-> FALSE],
        [name |-> "start", type |-> "int", default |-> PyInt(1), lowered |-> FALSE],
        [name |-> "limit", type |-> "int", default |-> PyInt(100), lowered |-> FALSE],
        [name |-> "aux", type |-> "str", default |-> PyStr("num_market_pairs,category,fee_type"), lowered |-> FALSE],
        [name |-> "matched_id", type |-> "str", default |-> PyNone, lowered |-> FALSE],
        [name |-> "matched_symbol", type |-> "str", default |-> PyNone, lowered |-> FALSE],
        [name |-> "category", type |-> "str", default |-> PyStr("all"), lowered |-> FALSE],
        [name |-> "fee_type", type |-> "str", default |-> PyStr("all"), lowered |-> FALSE],
        [name |-> "convert", type |-> "str", default |-> PyNone, lowered |-> FALSE],
        [name |-> "convert_id", type |-> "str", default |-> PyNone, lowered |-> FALSE]
      >>])
  @@ ("quotes_historical" :> [
      gated |-> TRUE, price |-> "10000", timeout |-> 30,
      url |-> [scheme |-> "https", host |-> "pro-api.coinmarketcap.com", path |-> "/v1/exchange/quotes/historical"],
      endpoint |-> "/v1/exchange/quotes/historical",
      params |-> <<
        [name |-> "id", type |-> "str", default |-> PyNone, lowered |-> FALSE],
        [name |-> "slug", type |-> "str", default |-> PyNone, lowered |-> FALSE],
        [name |-> "time_start", type |-> "str", default |-> PyNone, lowered |-> FALSE],
        [name |-> "time_end", type |-> "str", default |-> PyNone, lowered |-> FALSE],
        [name |-> "count", type |-> "float", default |-> PyInt(10), lowered |-> FALSE],
        [name |-> "interval", type |-> "str", default |-> PyStr("5m"), lowered |-> FALSE],
        [name |-> "convert", type |-> "str", default |-> PyNone, lowered |-> FALSE],
        [name |-> "convert_id", type |-> "str", default |-> PyNone, lowered |-> FALSE]
      >>])
  @@ ("quotes_latest" :> [
      gated |-> TRUE, price |-> "10000", timeout |-> 30,
      url |-> [scheme |-> "https", host |-> "pro-api.coinmarketcap.com", path |-> "/v1/exchange/quotes/latest"],
      endpoint |-> "/v1/exchange/quotes/latest",
      params |-> <<
        [name |-> "id", type |-> "str", default |-> PyNone, lowered |-> FALSE],
        [name |-> "slug", type |-> "str", default |-> PyNone, lowered |-> FALSE],
        [name |-> "convert", type |-> "str", default |-> PyNone, lowered |-> FALSE],
        [name |-> "convert_id", type |-> "str", default |-> PyNone, lowered |-> FALSE],
        [name |-> "aux", type |-> "str", default |-> PyStr("num_market_pairs,traffic_score,rank,exchange_score,liquidity_score,effective_liquidity_24h"), lowered |-> FALSE]
      >>])
  @@ ("quotes_historical_k8s0" :> [
      gated |-> TRUE, price |-> "10000", timeout |-> 30,
      url |-> [scheme |-> "https", host |-> "pro-api.coinmarketcap.com", path |-> "/v1/global-metrics/quotes/historical"],
      endpoint |-> "/v1/global-metrics/quotes/historical",
      params |-> <<
        [name |-> "time_start", type |-> "str", default |-> PyNone, lowered |-> FALSE],
        [name |-> "time_end", type |-> "str", default |-> PyNone, lowered |-> FALSE],
        [name |-> "count", type |-> "float", default |-> PyInt(10), lowered |-> FALSE],
        [name |-> "interval", type |-> "str", default |-> PyStr("1d"), lowered |-> FALSE],
        [name |-> "convert", type |-> "str", default |-> PyNone, lowered |-> FALSE],
        [name |-> "convert_id", type |-> "str", default |-> PyNone, lowered |-> FALSE],
        [name |-> "aux", type |-> "str", default |-> PyStr("btc_dominance,eth_dominance,active_cryptocurrencies,active_exchanges,active_market_pairs,total_volume_24h,total_volume_24h_reported,altcoin_market_cap,altcoin_volume_24h,altcoin_volume_24h_reported"), lowered |-> FALSE]
      >>])
  @@ ("quotes_latest_d46k" :> [
      gated |-> TRUE, price |-> "10000", timeout |-> 30,
      url |-> [scheme |-> "https", host |-> "pro-api.coinmarketcap.com", path |-> "/v1/global-metrics/quotes/latest"],
      endpoint |-> "/v1/global-metrics/quotes/latest",
      params |-> <<
        [name |-> "convert", type |-> "str", default |-> PyNone, lowered |-> FALSE],
        [name |-> "convert_id", type |-> "str", default |-> PyNone, lowered |-> FALSE]
      >>])
  @@ ("market_pairs_latest_v2" :> [
      gated |-> TRUE, price |-> "10000", timeout |-> 30,
      url |-> [scheme |-> "https", host |-> "pro-api.coinmarketcap.com", path |-> "/v2/cryptocurrency/market-pairs/latest"],
      endpoint |-> "/v2/cryptocurrency/market-pairs/latest",
      params |-> <<
        [name |-> "id", type |-> "str", default |-> PyNone, lowered |-> FALSE],
        [name |-> "slug", type |-> "str", default |-> PyNone, lowered |-> FALSE],
        [name |-> "symbol", type |-> "str", default |-> PyNone, lowered |-> FALSE],
        [name |-> "start", type |-> "int", default |-> PyInt(1), lowered |-> FALSE],
        [name |-> "limit", type |-> "int", default |-> PyInt(100), lowered |-> FALSE],
        [name |-> "sort_dir", type |-> "str", default |-> PyStr("desc"), lowered |-> FALSE],
        [name |-> "sort", type |-> "str", default |-> PyStr("volume_24h_strict"), lowered |-> FALSE],
        [name |-> "aux", type |-> "str", default |-> PyStr("num_market_pairs,category,fee_type"), lowered |-> FALSE],
        [name |-> "matched_id", type |-> "str", default |-> PyNone, lowered |-> FALSE],
        [name |-> "matched_symbol", type |-> "str", default |-> PyNone, lowered |-> FALSE],
        [name |-> "category", type |-> "str", default |-> PyStr("all"), lowered |-> FALSE],
        [name |-> "fee_type", type |-> "str", default |-> PyStr("all"), lowered |-> FALSE],
        [name |-> "convert", type |-> "str", default |-> PyNone, lowered |-> FALSE],
        [name |-> "convert_id", type |-> "str", default |-> PyNone, lowered |-> FALSE]
      >>])
  @@ ("ohlcv_historical_v2" :> [
      gated |-> TRUE, price |-> "10000", timeout |-> 30,
      url |-> [scheme |-> "https", host |-> "pro-api.coinmarketcap.com", path |-> "/v2/cryptocurrency/ohlcv/historical"],
      endpoint |-> "/v2/cryptocurrency/ohlcv/historical",
      params |-> <<
        [name |-> "id", type |-> "str", default |-> PyNone, lowered |-> FALSE],
        [name |-> "slug", type |-> "str", default |-> PyNone, lowered |-> FALSE],
        [name |-> "symbol", type |-> "str", default |-> PyNone, lowered |-> FALSE],
        [name |-> "time_period", type |-> "str", default |-> PyStr("daily"), lowered |-> FALSE],
        [name |-> "time_start", type |-> "str", default |-> PyNone, lowered |-> FALSE],
        [name |-> "time_end", type |-> "str", default |-> PyNone, lowered |-> FALSE],
        [name |-> "count", type |-> "float", default |-> PyInt(10), lowered |-> FALSE],
        [name |-> "interval", type |-> "str", default |-> PyStr("daily"), lowered |-> FALSE],
        [name |-> "convert", type |-> "str", default |-> PyNone, lowered |-> FALSE],
        [name |-> "convert_id", type |-> "str", default |-> PyNone, lowered |-> FALSE],
        [name |-> "skip_invalid", type |-> "bool", default |-> PyBool(TRUE), lowered |-> TRUE]
      >>])
  @@ ("ohlcv_latest_v2" :> [
      gated |-> TRUE, price |-> "10000", timeout |-> 30,
      url |-> [scheme |-> "https", host |-> "pro-api.coinmarketcap.com", path |-> "/v2/cryptocurrency/ohlcv/latest"],
      endpoint |-> "/v2/cryptocurrency/ohlcv/latest",
      params |-> <<
        [name |-> "id", type |-> "str", default |-> PyNone, lowered |-> FALSE],
        [name |-> "symbol", type |-> "str", default |-> PyNone, lowered |-> FALSE],
        [name |-> "convert", type |-> "str", default |-> PyNone, lowered |-> FALSE],
        [name |-> "convert_id", type |-> "str", default |-> PyNone, lowered |-> FALSE],
        [name |-> "skip_invalid", type |-> "bool", default |-> PyBool(TRUE), lowered |-> TRUE]
      >>])
  @@ ("price_performance_stats_v2" :> [
      gated |-> TRUE, price |-> "10000", timeout |-> 30,
      url |-> [scheme |-> "https", host |-> "pro-api.coinmarketcap.com", path |-> "/v2/cryptocurrency/price-performance-stats/latest"],
      endpoint |-> "/v2/cryptocurrency/price-performance-stats/latest",
      params |-> <<
        [name |-> "id", type |-> "str", default |-> PyNone, lowered |-> FALSE],
        [name |-> "slug", type |-> "str", default |-> PyNone, lowered |-> FALSE],
        [name |-> "symbol", type |-> "str", default |-> PyNone, lowered |-> FALSE],
        [name |-> "time_period", type |-> "str", default |-> PyStr("all_time"), lowered |-> FALSE],
        [name |-> "convert", type |-> "str", default |-> PyNone, lowered |-> FALSE],
        [name |-> "convert_id", type |-> "str", default |-> PyNone, lowered |-> FALSE],
        [name |-> "skip_invalid", type |-> "bool", default |-> PyBool(TRUE), lowered |-> TRUE]
      >>])
  @@ ("quotes_historical_v2" :> [
      gated |-> TRUE, price |-> "10000", timeout |-> 30,
      url |-> [scheme |-> "https", host |-> "pro-api.coinmarketcap.com", path |-> "/v2/cryptocurrency/quotes/historical"],
      endpoint |-> "/v2/cryptocurrency/quotes/historical",
      params |-> <<
        [name |-> "id", type |-> "str", default |-> PyNone, lowered |-> FALSE],
        [name |-> "symbol", type |-> "str", default |-> PyNone, lowered |-> FALSE],
        [name |-> "time_start", type |-> "str", default |-> PyNone, lowered |-> FALSE],
        [name |-> "time_end", type |-> "str", default |-> PyNone, lowered |-> FALSE],
        [name |-> "count", type |-> "float", default |-> PyInt(10), lowered |-> FALSE],
        [name |-> "interval", type |-> "str", default |-> PyStr("5m"), lowered |-> FALSE],
        [name |-> "convert", type |-> "str", default |-> PyNone, lowered |-> FALSE],
        [name |-> "convert_id", type |-> "str", default |-> PyNone, lowered |-> FALSE],
        [name |-> "aux", type |-> "str", default |-> PyStr("price,volume,market_cap,circulating_supply,total_supply,quote_timestamp,is_active,is_fiat"), lowered |-> FALSE],
        [name |-> "skip_invalid", type |-> "bool", default |-> PyBool(TRUE), lowered |-> TRUE]
      >>])
  @@ ("quotes_latest_v2" :> [
      gated |-> TRUE, price |-> "10000", timeout |-> 30,
      url |-> [scheme |-> "https", host |-> "pro-api.coinmarketcap.com", path |-> "/v2/cryptocurrency/quotes/latest"],
      endpoint |-> "/v2/cryptocurrency/quotes/latest",
      params |-> <<
        [name |-> "id", type |-> "str", default |-> PyNone, lowered |-> FALSE],
        [name |-> "slug", type |-> "str", default |-> PyNone, lowered |-> FALSE],
        [name |-> "symbol", type |-> "str", default |-> PyNone, lowered |-> FALSE],
        [name |-> "convert", type |-> "str", default |-> PyNone, lowered |-> FALSE],
        [name |-> "convert_id", type |-> "str", default |-> PyNone, lowered |-> FALSE],
        [name |-> "aux", type |-> "str", default |-> PyStr("num_market_pairs,cmc_rank,date_added,tags,platform,max_supply,circulating_supply,total_supply,is_active,is_fiat"), lowered |-> FALSE],
        [name |-> "skip_invalid", type |-> "bool", default |-> PyBool(TRUE), lowered |-> TRUE]
      >>])
  @@ ("quotes_historical_v3" :> [
      gated |-> TRUE, price |-> "10000", timeout |-> 30,
      url |-> [scheme |-> "https", host |-> "pro-api.coinmarketcap.com", path |-> "/v3/cryptocurrency/quotes/historical"],
      endpoint |-> "/v3/cryptocurrency/quotes/historical",
      params |-> <<
        [name |-> "id", type |-> "str", default |-> PyNone, lowered |-> FALSE],
        [name |-> "symbol", type |-> "str", default |-> PyNone, lowered |-> FALSE],
        [name |-> "time_start", type |-> "str", default |-> PyNone, lowered |-> FALSE],
        [name |-> "time_end", type |-> "str", default |-> PyNone, lowered |-> FALSE],
        [name |-> "count", type |-> "float", default |-> PyInt(10), lowered |-> FALSE],
        [name |-> "interval", type |-> "str", default |-> PyStr("5m"), lowered |-> FALSE],
        [name |-> "convert", type |-> "str", default |-> PyNone, lowered |-> FALSE],
        [name |-> "convert_id", type |-> "str", default |-> PyNone, lowered |-> FALSE],
        [name |-> "aux", type |-> "str", default |-> PyStr("price,volume,market_cap,circulating_supply,total_supply,quote_timestamp,is_active,is_fiat"), lowered |-> FALSE],
        [name |-> "skip_invalid", type |-> "bool", default |-> PyBool(TRUE), lowered |-> TRUE]
      >>])
  @@ ("fcas_listings_latest_deprecated" :> [
      gated |-> TRUE, price |-> "10000", timeout |-> 30,
      url |-> [scheme |-> "https", host |-> "pro-api.coinmarketcap.com", path |-> "/v1/partners/flipside-crypto/fcas/listings/latest"],
      endpoint |-> "/v1/partners/flipside-crypto/fcas/listings/latest",
      params |-> <<
        [name |-> "start", type |-> "int", default |-> PyInt(1), lowered |-> FALSE],
        [name |-> "limit", type |-> "int", default |-> PyInt(100), lowered |-> FALSE],
        [name |-> "aux", type |-> "str", default |-> PyStr("point_change_24h,percent_change_24h"), lowered |-> FALSE]
      >>])
  @@ ("fcas_quotes_latest_deprecated" :> [
      gated |-> TRUE, price |-> "10000", timeout |-> 30,
      url |-> [scheme |-> "https", host |-> "pro-api.coinmarketcap.com", path |-> "/v1/partners/flipside-crypto/fcas/quotes/latest"],
      endpoint |-> "/v1/partners/flipside-crypto/fcas/quotes/latest",
      params |-> <<
        [name |-> "id", type |-> "str", default |-> PyNone, lowered |-> FALSE],
        [name |-> "slug", type |-> "str", default |-> PyNone, lowered |-> FALSE],
        [name |-> "symbol", type |-> "str", default |-> PyNone, lowered |-> FALSE],
        [name |-> "aux", type |-> "str", default |-> PyStr("point_change_24h,percent_change_24h"), lowered |-> FALSE]
      >>])

Tools == DOMAIN Catalog

\* registered with @mcp.tool() under the function's name
RegisteredTools == Tools

RegistrySwapsTwo ==
  [n \in Tools |-> CASE n = "quotes_latest" -> "quotes_latest_d46k"
                     [] n = "quotes_latest_d46k" -> "quotes_latest"
                     [] OTHER -> n]

\* @mcp.tool() without a name argument binds each handler function to the
\* name of the function
Registry == [n \in Tools |-> n]

\* names a tools/call request may carry that no handler is registered under
UnknownNames == {"no_such_tool", "quotes_latest_v9"}

GatedMissingOne(t) == IF t = "key_info" THEN FALSE ELSE Catalog[t].gated

\* the handler is wrapped by @require_payment_for_tool
Gated(t) == Catalog[t].gated

Price(t) == Catalog[t].price

TimeoutWrongOnOne(t) == IF t = "key_info" THEN 60 ELSE Catalog[t].timeout

Timeout(t) == Catalog[t].timeout

Url(t) == Catalog[t].url

EndpointWrongOnOne(t) ==
  IF t = "quotes_latest_d46k" THEN "/v1/global-metrics/quotes/historical"
  ELSE Catalog[t].endpoint

Endpoint(t) == Catalog[t].endpoint

Params(t) == Catalog[t].params

ParamNames(t) == {Params(t)[i].name : i \in DOMAIN Params(t)}

ParamOf(t, p) == Params(t)[CHOOSE i \in DOMAIN Params(t) : Params(t)[i].name = p]

DefaultWithoutAux(t, p) == IF p = "aux" THEN PyNone ELSE ParamOf(t, p).default

Default(t, p) == ParamOf(t, p).default

\* path component of a URL
PathOf(u) == u.path

(***************************************************************************)
(* Parameter binding and the query map.                                    *)
(***************************************************************************)
BindDefaultsOnly(t, a) == [p \in ParamNames(t) |-> Default(t, p)]

\* Python's call binding: a parameter takes the caller's argument when one
\* was passed (an explicit None included), its default otherwise
Bind(t, a) ==
  [p \in ParamNames(t) |-> IF p \in DOMAIN a THEN a[p] ELSE Default(t, p)]

\* params = {"name": name, ..., "flag": str(flag).lower()}
RawParams(t, b) ==
  [p \in ParamNames(t) |->
     IF ParamOf(t, p).lowered THEN PyLower(PyStrOf(b[p])) ELSE b[p]]

FilterNothing(m) == m

\* params = {k: v for k, v in params.items() if v is not None}
FilterNone(m) == [k \in {x \in DOMAIN m : m[x] # PyNone} |-> m[k]]

BuildParamsExclusive(t, a) ==
  LET m == FilterNone(RawParams(t, Bind(t, a)))
  IN  [k \in DOMAIN m \ (IF "id" \in DOMAIN m THEN {"slug"} ELSE {}) |-> m[k]]

BuildParams(t, a) == FilterNone(RawParams(t, Bind(t, a)))

BuildHeadersNoBearer(k) ==
  IF Truthy(k)
  THEN [h \in {"X-CMC_PRO_API_KEY", "X-API-Key"} |-> <<k.v>>]
  ELSE << >>

\* headers = {}; if api_key: three credential headers
BuildHeaders(k) ==
  IF Truthy(k)
  THEN [h \in {"X-CMC_PRO_API_KEY", "Authorization", "X-API-Key"} |->
          IF h = "Authorization" THEN <<"Bearer ", k.v>> ELSE <<k.v>>]
  ELSE << >>

(***************************************************************************)
(* Text.  A text the program formats is a sequence of pieces; a number is  *)
(* rendered as its decimal digits.                                         *)
(***************************************************************************)
Digit(d) ==
  CASE d = 0 -> "0" [] d = 1 -> "1" [] d = 2 -> "2" [] d = 3 -> "3"
    [] d = 4 -> "4" [] d = 5 -> "5" [] d = 6 -> "6" [] d = 7 -> "7"
    [] d = 8 -> "8" [] d = 9 -> "9"

RECURSIVE Digits(_)
Digits(n) == IF n < 10 THEN <<Digit(n)>> ELSE Digits(n \div 10) \o <<Digit(n % 10)>>

UrlText(u) == <<u.scheme, "://", u.host, u.path>>

(***************************************************************************)
(* The upstream, as requests.get sees it: a response with a status and a   *)
(* body text, or no response at all.                                       *)
(***************************************************************************)
Statuses == {101, 200, 300, 404, 500}

BodyData == "{\"data\": \"Bitcoin\"}"

BodyEnvelopeLike == "{\"error\": \"rate limit\", \"endpoint\": \"/v1/key/info\"}"

BodyNotJson == "<html>Bad Gateway</html>"

Bodies == {BodyData, BodyEnvelopeLike, BodyNotJson}

Outcomes ==
  [kind : {"response"}, status : Statuses, text : Bodies]
    \cup {[kind |-> "timeout", status |-> 0, text |-> ""],
          [kind |-> "connection", status |-> 0, text |-> ""]}

ReasonPhrase(s) ==
  CASE s = 101 -> "Switching Protocols" [] s = 200 -> "OK"
    [] s = 300 -> "Multiple Choices" [] s = 404 -> "Not Found"
    [] s = 500 -> "Internal Server Error" [] OTHER -> ""

\* response.json(): the parsed body, or no value when the text is not JSON
JsonParse(text) ==
  CASE text = BodyData -> [ok |-> TRUE, value |-> [data |-> <<"Bitcoin">>]]
    [] text = BodyEnvelopeLike ->
         [ok |-> TRUE,
          value |-> [error |-> <<"rate limit">>, endpoint |-> "/v1/key/info"]]
    [] OTHER -> [ok |-> FALSE, value |-> << >>]

(***************************************************************************)
(* The try block after the request has been issued: requests.get returns   *)
(* or raises, raise_for_status, response.json(), and the except clause.    *)
(***************************************************************************)
\* requests.get raises instead of returning a response
GetRaises(o) == o.kind # "response"

\* response.raise_for_status() raises HTTPError: client and server errors only
RaisesForStatus(o) == o.status >= 400 /\ o.status < 600

\* str(e) of the exception the try block raised for outcome o of tool t
ExceptionText(t, o) ==
  CASE o.kind = "timeout" ->
         <<"HTTPSConnectionPool(host='", Url(t).host,
           "', port=443): Read timed out. (read timeout=">>
           \o Digits(Timeout(t)) \o <<")">>
    [] o.kind = "connection" ->
         <<"HTTPSConnectionPool(host='", Url(t).host,
           "', port=443): Max retries exceeded with url: ", Url(t).path>>
    [] o.kind = "response" /\ RaisesForStatus(o) ->
         Digits(o.status)
           \o <<IF o.status < 500 THEN " Client Error: " ELSE " Server Error: ",
                ReasonPhrase(o.status), " for url: ">>
           \o UrlText(Url(t))
    [] OTHER -> <<"Expecting value: line 1 column 1 (char 0)">>

\* the try block raises for outcome o
TryRaises(o) ==
  \/ GetRaises(o)
  \/ RaisesForStatus(o)
  \/ ~JsonParse(o.text).ok

\* return {"error": str(e), "endpoint": "<path>"}
Envelope(t, o) == [error |-> ExceptionText(t, o), endpoint |-> Endpoint(t)]

BodyWithStatus(o) ==
  LET v == JsonParse(o.text).value
  IN  [k \in DOMAIN v \cup {"status_code"} |->
         IF k = "status_code" THEN Digits(o.status) ELSE v[k]]

\* return response.json()
SuccessValue(o) == JsonParse(o.text).value

\* what the handler returns once the outbound call has ended with outcome o
HandlerReturn(t, o) == IF TryRaises(o) THEN Envelope(t, o) ELSE SuccessValue(o)

(***************************************************************************)
(* The payment gate (traia_iatp.d402), which this repository only calls.   *)
(* What a request carries for the gate: nothing, an API key, or a payment  *)
(* proof for some amount; either may be valid or not.                      *)
(***************************************************************************)
NoAuth == [kind |-> "none", valid |-> FALSE, amount |-> ""]

AuthInputs ==
  {NoAuth}
    \cup [kind : {"api_key"}, valid : BOOLEAN, amount : {""}]
    \cup [kind : {"payment"}, valid : BOOLEAN, amount : {"10000", "1"}]

GateAuthorizes(t, au) ==
  \/ au.kind = "api_key" /\ au.valid
  \/ au.kind = "payment" /\ au.valid /\ au.amount = Price(t)

(***************************************************************************)
(* Inputs of one invocation.                                               *)
(***************************************************************************)
\* values a caller passes for a parameter of the given annotation; None is
\* the explicit null
ArgValues(ty) ==
  {PyNone} \cup
    CASE ty = "str"   -> {PyStr("bitcoin")}
      [] ty = "int"   -> {PyInt(5)}
      [] ty = "float" -> {PyInt(7)}
      [] ty = "bool"  -> {PyBool(TRUE), PyBool(FALSE)}

\* the subsets of S with at most k elements
RECURSIVE SubsetsUpTo(_, _)
SubsetsUpTo(S, k) ==
  IF k = 0 THEN {{}}
  ELSE LET r == SubsetsUpTo(S, k - 1)
       IN  r \cup {X \cup {p} : X \in r, p \in S}

\* the argument sets of tool t: at most MaxArgs parameters supplied, each
\* with a value of its annotation or an explicit None
ArgSets(t) ==
  UNION {{a \in [S -> UNION {ArgValues(ty) : ty \in {"str", "int", "float", "bool"}}] :
             \A p \in S : a[p] \in ArgValues(ParamOf(t, p).type)} :
         S \in SubsetsUpTo(ParamNames(t), MaxArgs)}

\* what get_active_api_key(context) returns: a key, None, or the empty text
KeyResults == {PyStr("cmc-key"), PyNone, PyStr("")}

NoRequest == [sent |-> FALSE]

OutboundRequestBySlug(t, a, k) ==
  [sent |-> TRUE, method |-> "GET",
   url |-> IF "slug" \in DOMAIN a
           THEN [Url(t) EXCEPT !.path = "/v1/exchange/quotes/by-slug"]
           ELSE Url(t),
   params |-> BuildParams(t, a),
   headers |-> BuildHeaders(k),
   timeout |-> Timeout(t)]

\* requests.get(url, params=params, headers=headers, timeout=30), for tool t
\* called with arguments a once credential resolution has returned k
OutboundRequest(t, a, k) ==
  [sent |-> TRUE, method |-> "GET", url |-> Url(t),
   params |-> BuildParams(t, a),
   headers |-> BuildHeaders(k),
   timeout |-> Timeout(t)]

NoOutcome == [kind |-> "none", status |-> 0, text |-> ""]

NoResult == [pending |-> TRUE]

VARIABLES
  pc,          \* where the invocation is
  name,        \* the tool name the tools/call request carries
  tool,        \* the handler the request was dispatched to
  args,        \* the arguments the caller supplied
  auth,        \* what the request carries for the payment gate
  authorized,  \* the gate has authorized this invocation
  api_key,     \* the handler's local api_key
  request,     \* the outbound request handed to requests.get
  calls,       \* outbound calls made by this invocation
  response,    \* how the outbound call ended
  result,      \* the object returned to the transport
  env,         \* the process environment os.getenv reads
  app,         \* what create_app_with_middleware has produced
  invs,        \* the tool calls in progress, one record per call
  loop,        \* the call whose handler holds the event loop, 0 when free
  mcp,         \* the tool table of the FastMCP object
  http         \* the last HTTP exchange served outside the tool handlers

appVars == <<env, app, mcp, http>>

concVars == <<invs, loop>>

vars == <<pc, name, tool, args, auth, authorized, api_key, request, calls, response, result,
          appVars, concVars>>

Invs == 1 .. NumInv

\* a call that has not arrived yet
IdleInv ==
  [pc |-> "idle", tool |-> "none", args |-> << >>, auth |-> NoAuth,
   api_key |-> PyNone, request |-> NoRequest, response |-> NoOutcome,
   result |-> NoResult, cancel |-> FALSE]

(***************************************************************************)
(* Application setup: create_app_with_middleware.                          *)
(***************************************************************************)
FacilitatorValues == {PyNone, PyStr(""), PyStr("https://facilitator.example")}

TestingModeValues == {PyNone, PyStr("true"), PyStr("TRUE"), PyStr("false"), PyStr("1")}

ApiKeyValues == {PyNone, PyStr("cmc-key")}

\* the environments the server is started in; SERVER_ADDRESS is always set,
\* the module refuses to load without it
Envs ==
  [FACILITATOR_URL : FacilitatorValues,
   D402_FACILITATOR_URL : FacilitatorValues,
   D402_TESTING_MODE : TestingModeValues,
   COINMCP7_API_KEY : ApiKeyValues,
   SERVER_ADDRESS : {PyStr("0xSERVER")}]

\* os.getenv(k, d)
GetEnv(e, k, d) == IF e[k] = PyNone THEN d ELSE e[k]

\* x or y
PyOr(x, y) == IF Truthy(x) THEN x ELSE y

\* SERVER_ADDRESS = os.getenv("SERVER_ADDRESS")
SERVER_ADDRESS(e) == GetEnv(e, "SERVER_ADDRESS", PyNone)

\* API_KEY = os.getenv("COINMCP7_API_KEY")
API_KEY(e) == GetEnv(e, "COINMCP7_API_KEY", PyNone)

\* facilitator_url = os.getenv("FACILITATOR_URL") or os.getenv("D402_FACILITATOR_URL")
facilitator_url(e) ==
  PyOr(GetEnv(e, "FACILITATOR_URL", PyNone), GetEnv(e, "D402_FACILITATOR_URL", PyNone))

\* testing_mode = os.getenv("D402_TESTING_MODE", "false").lower() == "true"
testing_mode(e) == PyLower(GetEnv(e, "D402_TESTING_MODE", PyStr("false"))) = PyStr("true")

\* extract_payment_configs_from_mcp(mcp, SERVER_ADDRESS): one entry per
\* registered tool that carries a payment decorator, with the decorator's price
extract_payment_configs_from_mcp ==
  [n \in {m \in RegisteredTools : Gated(Registry[m])} |-> Price(Registry[n])]

CorsOptions ==
  [allow_origins |-> {"*"}, allow_credentials |-> TRUE, allow_methods |-> {"*"},
   allow_headers |-> {"*"}, expose_headers |-> {"mcp-session-id"}]

D402OptionsOwnPriceTable(cfgs, e) ==
  [tool_payment_configs |-> [n \in DOMAIN cfgs \ {"key_info"} |-> "10000"],
   server_address |-> SERVER_ADDRESS(e),
   requires_auth |-> TRUE,
   internal_api_key |-> API_KEY(e),
   testing_mode |-> testing_mode(e),
   facilitator_url |-> facilitator_url(e)]

\* the keyword arguments of app.add_middleware(D402PaymentMiddleware, ...)
D402Options(cfgs, e) ==
  [tool_payment_configs |-> cfgs,
   server_address |-> SERVER_ADDRESS(e),
   requires_auth |-> TRUE,
   internal_api_key |-> API_KEY(e),
   testing_mode |-> testing_mode(e),
   facilitator_url |-> facilitator_url(e)]

\* Starlette's add_middleware puts the new layer in front of the ones added
\* before it; the first of the list is the outermost layer
AddMiddleware(a, cls, options) ==
  [a EXCEPT !.middleware = <<[cls |-> cls, options |-> options]>> \o @]

\* @app.route(path, methods=[method])
AddRoute(a, path, method) ==
  [a EXCEPT !.routes = @ \cup {[path |-> path, method |-> method]}]

NoApp == [state |-> "none", middleware |-> << >>, routes |-> {}]

\* app = mcp.streamable_http_app()
StreamableHttpApp ==
  [state |-> "created", middleware |-> << >>,
   routes |-> {[path |-> "/mcp", method |-> "POST"]}]

CreateAppRaisesWithoutFallback(e) ==
  ~Truthy(GetEnv(e, "FACILITATOR_URL", PyNone)) /\ ~testing_mode(e)

\* if not facilitator_url and not testing_mode: raise ValueError(...)
CreateAppRaises(e) == ~Truthy(facilitator_url(e)) /\ ~testing_mode(e)

\* the app create_app_with_middleware returns in environment e
BuiltApp(e) ==
  LET tool_payment_configs == extract_payment_configs_from_mcp
      withCors == AddMiddleware(StreamableHttpApp, "CORSMiddleware", CorsOptions)
      withD402 == AddMiddleware(withCors, "D402PaymentMiddleware",
                                D402Options(tool_payment_configs, e))
  IN  AddRoute(withD402, "/health", "GET")

FailedApp ==
  [state |-> "failed", middleware |-> << >>, routes |-> {},
   error |-> "Set FACILITATOR_URL or enable D402_TESTING_MODE=true"]

(***************************************************************************)
(* The tool table of mcp, as the decorators leave it when the module has   *)
(* been loaded: the name a handler is registered under, the handler, and   *)
(* the price of its payment decorator.  URL and parameters belong to the   *)
(* handler function itself.                                                *)
(***************************************************************************)
McpTools ==
  [n \in RegisteredTools |-> [handler |-> Registry[n], price |-> Price(Registry[n])]]

ToolsAfterCallDropsTool(m, t) == [n \in DOMAIN m \ {t} |-> m[n]]

\* the tool table once the handler of tool t has run: no statement of a
\* handler body refers to mcp
ToolsAfterCall(m, t) == m

(***************************************************************************)
(* HTTP requests to the assembled app.  A request goes through the         *)
(* middleware layers from the outermost to the router; the response goes   *)
(* back through the layers the request has passed.                         *)
(***************************************************************************)
\* times datetime.now() returns
Clock == {"2026-01-01T00:00:00", "2026-01-01T00:00:30"}

HttpAuths == {au \in AuthInputs : au.kind = "none" \/ (au.kind = "api_key" /\ au.valid)}

\* requests of a browser (they carry an Origin header); a request to /mcp is
\* a tools/call of a gated tool
HttpRequests == [path : {"/health", "/mcp"}, method : {"GET", "POST"}, auth : HttpAuths]

health_check_unhealthy(now) ==
  [status |-> "unhealthy", service |-> "coinmcp7-mcp-server", timestamp |-> now]

\* the content of the JSONResponse health_check returns
health_check(now) ==
  [status |-> "healthy", service |-> "coinmcp7-mcp-server", timestamp |-> now]

\* the router: the route registered for the path answers, 405 for another
\* method, 404 for an unknown path; /mcp hands the call to FastMCP
RouteResponse(a, rq, now) ==
  CASE [path |-> rq.path, method |-> rq.method] \in a.routes ->
         [status |-> 200, headers |-> {},
          body |-> IF rq.path = "/health" THEN health_check(now)
                   ELSE [jsonrpc |-> "2.0"]]
    [] \E r \in a.routes : r.path = rq.path ->
         [status |-> 405, headers |-> {}, body |-> [detail |-> "Method Not Allowed"]]
    [] OTHER ->
         [status |-> 404, headers |-> {}, body |-> [detail |-> "Not Found"]]

\* the payment middleware answers the request itself with 402; the health
\* path is outside the gate
D402Rejects(options, rq) ==
  /\ rq.path # "/health"
  /\ "key_info" \in DOMAIN options.tool_payment_configs
  /\ ~GateAuthorizes("key_info", rq.auth)

RECURSIVE ThroughLayers(_, _, _, _)
\* the response to rq of the layers and the router behind them
ThroughLayers(layers, a, rq, now) ==
  IF layers = << >> THEN RouteResponse(a, rq, now)
  ELSE LET layer == Head(layers)
           inner == ThroughLayers(Tail(layers), a, rq, now)
       IN  CASE layer.cls = "D402PaymentMiddleware" ->
                  IF D402Rejects(layer.options, rq)
                  THEN [status |-> 402, headers |-> {},
                        body |-> [detail |-> "Payment Required"]]
                  ELSE inner
             [] layer.cls = "CORSMiddleware" ->
                  [inner EXCEPT !.headers =
                     @ \cup {"access-control-allow-origin", "access-control-expose-headers"}]
             [] OTHER -> inner

\* the response of app a to request rq
Serve(a, rq, now) == ThroughLayers(a.middleware, a, rq, now)

NoHttp == [served |-> FALSE]

\* the environment of a server that is up and serving tool calls
RunningEnv ==
  [FACILITATOR_URL |-> PyStr("https://facilitator.example"),
   D402_FACILITATOR_URL |-> PyNone,
   D402_TESTING_MODE |-> PyNone,
   COINMCP7_API_KEY |-> PyStr("cmc-key"),
   SERVER_ADDRESS |-> PyStr("0xSERVER")]

Init ==
  /\ pc = "idle"
  /\ name = "none"
  /\ tool = "none"
  /\ args = << >>
  /\ auth = NoAuth
  /\ authorized = FALSE
  /\ api_key = PyNone
  /\ request = NoRequest
  /\ calls = 0
  /\ response = NoOutcome
  /\ result = NoResult
  /\ env = RunningEnv
  /\ app = BuiltApp(env)
  /\ invs = [i \in Invs |-> IdleInv]
  /\ loop = 0
  /\ mcp = McpTools
  /\ http = NoHttp

\* a tools/call request for a registered tool arrives
Invoke ==
  /\ pc = "idle"
  /\ \E n \in DOMAIN mcp : \E a \in ArgSets(mcp[n].handler) : \E au \in AuthInputs :
       /\ name' = n
       /\ tool' = mcp[n].handler
       /\ args' = a
       /\ auth' = au
  /\ pc' = "gate"
  /\ UNCHANGED <<authorized, api_key, request, calls, response, result>>
  /\ UNCHANGED <<appVars, concVars>>

\* a tools/call request arrives with a name nothing is registered under:
\* the registry lookup fails and no handler runs
InvokeUnknown ==
  /\ pc = "idle"
  /\ \E n \in (Tools \cup UnknownNames) \ DOMAIN mcp : name' = n
  /\ pc' = "notfound"
  /\ UNCHANGED <<tool, args, auth, authorized, api_key, request, calls, response, result>>
  /\ UNCHANGED <<appVars, concVars>>

\* the wrapper of @require_payment_for_tool lets the call through to the
\* handler body; a handler without the decorator is entered directly
GateAuthorize ==
  /\ pc = "gate"
  /\ Gated(tool) => GateAuthorizes(tool, auth)
  /\ authorized' = Gated(tool)
  /\ pc' = "handler"
  /\ UNCHANGED <<name, tool, args, auth, api_key, request, calls, response, result>>
  /\ UNCHANGED <<appVars, concVars>>

\* the gate answers 402; the handler is not entered
GateReject ==
  /\ pc = "gate"
  /\ Gated(tool)
  /\ ~GateAuthorizes(tool, auth)
  /\ pc' = "rejected"
  /\ UNCHANGED <<name, tool, args, auth, authorized, api_key, request, calls, response, result>>
  /\ UNCHANGED <<appVars, concVars>>

\* api_key = get_active_api_key(context) raises: the call is made before the
\* try statement, so the exception leaves the handler
CredentialRaises ==
  /\ pc = "handler"
  /\ pc' = "raised"
  /\ UNCHANGED <<name, tool, args, auth, authorized, api_key, request, calls, response, result>>
  /\ UNCHANGED <<appVars, concVars>>

\* api_key = get_active_api_key(context) returns; the try block builds the
\* query map and the headers and calls requests.get
SendRequest ==
  /\ pc = "handler"
  /\ \E k \in KeyResults :
       /\ api_key' = k
       /\ request' = OutboundRequest(tool, args, k)
  /\ calls' = calls + 1
  /\ pc' = "inflight"
  /\ UNCHANGED <<name, tool, args, auth, authorized, response, result>>
  /\ UNCHANGED <<appVars, concVars>>

\* the outbound call ends and the handler returns
Respond ==
  /\ pc = "inflight"
  /\ \E o \in Outcomes :
       /\ response' = o
       /\ result' = HandlerReturn(tool, o)
  /\ pc' = "returned"
  /\ mcp' = ToolsAfterCall(mcp, tool)
  /\ UNCHANGED <<name, tool, args, auth, authorized, api_key, request, calls>>
  /\ UNCHANGED <<env, app, http, concVars>>

\* the transport answers the caller and the invocation is over
Finish ==
  /\ pc \in {"returned", "raised", "rejected", "notfound"}
  /\ pc' = "idle"
  /\ name' = "none"
  /\ tool' = "none"
  /\ args' = << >>
  /\ auth' = NoAuth
  /\ authorized' = FALSE
  /\ api_key' = PyNone
  /\ request' = NoRequest
  /\ calls' = 0
  /\ response' = NoOutcome
  /\ result' = NoResult
  /\ UNCHANGED <<appVars, concVars>>

Next ==
  \/ Invoke
  \/ InvokeUnknown
  \/ GateAuthorize
  \/ GateReject
  \/ CredentialRaises
  \/ SendRequest
  \/ Respond
  \/ Finish

Spec == Init /\ [][Next]_vars

(***************************************************************************)
(* Start-up: the module is loaded in some environment and                  *)
(* create_app_with_middleware is called once.                              *)
(***************************************************************************)
invocationVars == <<pc, name, tool, args, auth, authorized, api_key, request, calls, response, result>>

InitApp ==
  /\ pc = "idle"
  /\ name = "none"
  /\ tool = "none"
  /\ args = << >>
  /\ auth = NoAuth
  /\ authorized = FALSE
  /\ api_key = PyNone
  /\ request = NoRequest
  /\ calls = 0
  /\ response = NoOutcome
  /\ result = NoResult
  /\ env \in Envs
  /\ app = NoApp
  /\ invs = [i \in Invs |-> IdleInv]
  /\ loop = 0
  /\ mcp = McpTools
  /\ http = NoHttp

\* create_app_with_middleware() returns the app
CreateApp ==
  /\ app = NoApp
  /\ ~CreateAppRaises(env)
  /\ app' = BuiltApp(env)
  /\ UNCHANGED <<env, mcp, http, invocationVars, concVars>>

\* create_app_with_middleware() raises ValueError
CreateAppFails ==
  /\ app = NoApp
  /\ CreateAppRaises(env)
  /\ app' = FailedApp
  /\ UNCHANGED <<env, mcp, http, invocationVars, concVars>>

\* the app answers an HTTP request; its handling needs the event loop
HttpRequest(rq, now) ==
  /\ app.state = "created"
  /\ loop = 0
  /\ http' = [served |-> TRUE, request |-> rq, response |-> Serve(app, rq, now)]
  /\ UNCHANGED <<env, app, mcp, invocationVars, concVars>>

\* some client sends some request
AnyHttpRequest == \E rq \in HttpRequests : \E now \in Clock : HttpRequest(rq, now)

NextApp ==
  \/ CreateApp
  \/ CreateAppFails
  \/ AnyHttpRequest

SpecApp == InitApp /\ [][NextApp]_vars

(***************************************************************************)
(* Several tool calls in one server process.  The handlers are coroutines  *)
(* of one event loop; a handler body has no await, so from its first       *)
(* statement to its return it holds the loop, requests.get included.       *)
(***************************************************************************)
\* the calls clients make
ConcCalls ==
  {[tool |-> "quotes_latest", args |-> [p \in {"slug"} |-> PyStr("bitcoin")]],
   [tool |-> "quotes_latest", args |-> << >>],
   [tool |-> "key_info", args |-> << >>]}

ConcAuths == {au \in AuthInputs : au.kind # "payment" /\ (au.kind = "api_key" => au.valid)}

ConcKeys == {k \in KeyResults : k.v # ""}

ConcOutcomes ==
  {o \in Outcomes : o.kind = "timeout" \/ (o.status \in {200, 500} /\ o.text = BodyData)}

FrameOfFirstCall(s, i) ==
  IF s[1].pc # "idle" THEN [s[i] EXCEPT !.args = s[1].args] ELSE s[i]

\* the parameters and local variables of the handler running for call i:
\* every call of a handler has a frame of its own
Frame(s, i) == s[i]

InitConc ==
  /\ pc = "idle"
  /\ name = "none"
  /\ tool = "none"
  /\ args = << >>
  /\ auth = NoAuth
  /\ authorized = FALSE
  /\ api_key = PyNone
  /\ request = NoRequest
  /\ calls = 0
  /\ response = NoOutcome
  /\ result = NoResult
  /\ env = RunningEnv
  /\ app = BuiltApp(env)
  /\ invs = [i \in Invs |-> IdleInv]
  /\ loop = 0
  /\ mcp = McpTools
  /\ http = NoHttp

\* the transport reads a tools/call request and starts its task
Arrive(i) ==
  /\ loop = 0
  /\ invs[i].pc = "idle"
  /\ \E c \in ConcCalls : \E au \in ConcAuths :
       invs' = [invs EXCEPT ![i].pc = "gate", ![i].tool = c.tool,
                            ![i].args = c.args, ![i].auth = au]
  /\ UNCHANGED <<loop, appVars, invocationVars>>

\* the payment gate answers 402
ConcGateReject(i) ==
  /\ loop = 0
  /\ invs[i].pc = "gate"
  /\ Gated(invs[i].tool)
  /\ ~GateAuthorizes(invs[i].tool, invs[i].auth)
  /\ invs' = [invs EXCEPT ![i].pc = "rejected"]
  /\ UNCHANGED <<loop, appVars, invocationVars>>

\* the client's cancellation of call i reaches the server
CancelRequested(i) ==
  /\ invs[i].pc \in {"gate", "inflight"}
  /\ ~invs[i].cancel
  /\ invs' = [invs EXCEPT ![i].cancel = TRUE]
  /\ UNCHANGED <<loop, appVars, invocationVars>>

\* the loop is free: the transport cancels the task of call i, which is
\* suspended at an await of the layers in front of the handler
CancelDelivered(i) ==
  /\ loop = 0
  /\ invs[i].pc = "gate"
  /\ invs[i].cancel
  /\ invs' = [invs EXCEPT ![i].pc = "cancelled"]
  /\ UNCHANGED <<loop, appVars, invocationVars>>

\* the gate lets call i through and get_active_api_key(context) raises
EnterRaises(i) ==
  /\ loop = 0
  /\ invs[i].pc = "gate"
  /\ Gated(invs[i].tool) => GateAuthorizes(invs[i].tool, invs[i].auth)
  /\ invs' = [invs EXCEPT ![i].pc = "raised"]
  /\ UNCHANGED <<loop, appVars, invocationVars>>

\* the gate lets call i through; the handler resolves the credential, builds
\* the request and calls requests.get, which blocks the loop
EnterHandler(i) ==
  /\ loop = 0
  /\ invs[i].pc = "gate"
  /\ Gated(invs[i].tool) => GateAuthorizes(invs[i].tool, invs[i].auth)
  /\ \E k \in ConcKeys :
       invs' = [invs EXCEPT
                  ![i].pc = "inflight",
                  ![i].api_key = k,
                  ![i].request = OutboundRequest(Frame(invs, i).tool,
                                                 Frame(invs, i).args, k)]
  /\ loop' = i
  /\ UNCHANGED <<appVars, invocationVars>>

\* requests.get of call i ends; the handler returns and frees the loop
ConcRespond(i) ==
  /\ loop = i
  /\ invs[i].pc = "inflight"
  /\ \E o \in ConcOutcomes :
       invs' = [invs EXCEPT
                  ![i].pc = "returned",
                  ![i].response = o,
                  ![i].result = HandlerReturn(Frame(invs, i).tool, o)]
  /\ loop' = 0
  /\ mcp' = ToolsAfterCall(mcp, invs[i].tool)
  /\ UNCHANGED <<env, app, http, invocationVars>>

\* a GET /health with no credential and no payment proof
HealthCheck ==
  \E now \in Clock :
    HttpRequest([path |-> "/health", method |-> "GET", auth |-> NoAuth], now)

NextConc ==
  \/ HealthCheck
  \/ \E i \in Invs : Arrive(i)
  \/ \E i \in Invs : ConcGateReject(i)
  \/ \E i \in Invs : CancelRequested(i)
  \/ \E i \in Invs : CancelDelivered(i)
  \/ \E i \in Invs : EnterRaises(i)
  \/ \E i \in Invs : EnterHandler(i)
  \/ \E i \in Invs : ConcRespond(i)

SpecConc == InitConc /\ [][NextConc]_vars

(***************************************************************************)
(* Properties.                                                             *)
(***************************************************************************)
\* the handler body has been entered
HandlerEntered == pc \in {"handler", "inflight", "returned", "raised"}

\* the invocation has left the handler
HandlerLeft == pc \in {"returned", "raised"}

\* the returned object has the error-envelope shape
IsEnvelope(r) == DOMAIN r = {"error", "endpoint"}

\* s occurs in text m as a run of consecutive pieces
CarriesSeq(m, s) ==
  \E i \in 0..(Len(m) - Len(s)) : SubSeq(m, i + 1, i + Len(s)) = s

\* the envelope's message is that of an HTTP error status
IsUpstreamError(r) ==
  /\ IsEnvelope(r)
  /\ \E i \in 1..Len(r.error) : r.error[i] \in {" Client Error: ", " Server Error: "}

\* the envelope's message is that of a failed connection or a timeout
IsTransportError(r) ==
  /\ IsEnvelope(r)
  /\ Len(r.error) > 0
  /\ r.error[1] = "HTTPSConnectionPool(host='"

\* the upstream answered with a 2xx status
SuccessStatus(o) == o.kind = "response" /\ o.status >= 200 /\ o.status < 300

\* C1: the handler body of each of the 27 tools runs, and an outbound
\* request is issued, only for a request the payment gate has authorized:
\* one carrying a valid internal credential or a valid payment proof for
\* the tool's declared price.
C1_HandlerOnlyAfterGate ==
  /\ HandlerEntered => authorized /\ GateAuthorizes(tool, auth)
  /\ request.sent => authorized /\ GateAuthorizes(tool, auth)

C1_Witness ==
  /\ pc = "inflight"
  /\ request.sent
  /\ auth.kind = "payment"
  /\ auth.amount = Price(tool)

\* C2: no exception escapes a tool invocation, whatever credential
\* resolution and the upstream call do: an invocation that has left its
\* handler has returned an object.
C2_NoExceptionEscapes == HandlerLeft => pc = "returned" /\ result # NoResult

\* C3: an error raised in the try block makes the handler return an object
\* with exactly the keys "error" and "endpoint", the message a text and the
\* endpoint the path of the URL this tool requested.
C3_ErrorEnvelope ==
  (pc = "returned" /\ TryRaises(response)) =>
     /\ DOMAIN result = {"error", "endpoint"}
     /\ Len(result.error) > 0
     /\ result.endpoint = PathOf(request.url)

C3_Witness ==
  /\ pc = "returned"
  /\ response.kind = "response"
  /\ response.status = 200
  /\ response.text = BodyNotJson
  /\ tool = "quotes_latest_d46k"
  /\ result.endpoint = "/v1/global-metrics/quotes/latest"

\* C4: a success status with a JSON body makes the invocation return exactly
\* the parsed body.
C4_BodyVerbatim ==
  (pc = "returned" /\ SuccessStatus(response) /\ JsonParse(response.text).ok) =>
     result = JsonParse(response.text).value

C4_Witness ==
  /\ pc = "returned"
  /\ response.status = 200
  /\ response.text = BodyData
  /\ result = [data |-> <<"Bitcoin">>]

\* C5: every invocation that reaches its handler performs exactly one
\* outbound call, whatever the outcome.
C5_ExactlyOneCall == HandlerLeft => calls = 1

\* C6: every status outside 2xx yields an UpstreamError failure and never
\* the response body as a success.
C6_NonSuccessStatusFails ==
  (pc = "returned" /\ response.kind = "response" /\ ~SuccessStatus(response)) =>
     IsUpstreamError(result)

\* C7: a 4xx or 5xx response yields an error envelope that carries both the
\* HTTP status and the upstream response body.
C7_ErrorCarriesStatusAndBody ==
  (pc = "returned" /\ response.kind = "response" /\ response.status >= 400) =>
     /\ IsEnvelope(result)
     /\ CarriesSeq(result.error, Digits(response.status))
     /\ CarriesSeq(result.error, <<response.text>>)

FixedTimeout == 30

Serialized(v) ==
  IF v.t = "bool" THEN PyStr(IF v.v THEN "true" ELSE "false") ELSE v

\* C9: each declared parameter is resolved to the caller's value when one
\* was supplied and is not null, otherwise to the declared default when
\* there is one (an explicit null included), otherwise the key is omitted.
C9_ResolutionOrder ==
  request.sent =>
    \A p \in ParamNames(tool) :
      IF p \in DOMAIN args /\ args[p] # PyNone
      THEN p \in DOMAIN request.params /\ request.params[p] = Serialized(args[p])
      ELSE IF Default(tool, p) # PyNone
      THEN p \in DOMAIN request.params
             /\ request.params[p] = Serialized(Default(tool, p))
      ELSE p \notin DOMAIN request.params

\* C10: every key of the query map is a declared parameter and every value
\* is non-absent: neither None nor a text standing for it.
C10_NoAbsentValues ==
  request.sent =>
    \A k \in DOMAIN request.params :
      /\ k \in ParamNames(tool)
      /\ request.params[k] # PyNone
      /\ request.params[k] # PyStr("none")
      /\ request.params[k] # PyStr("None")

\* the parameters of tool t that declare a default
Defaulted(t) == {p \in ParamNames(t) : Default(t, p) # PyNone}

\* C11: an invocation that supplies no argument produces a query map with
\* exactly the parameters that declare a default, each with its default,
\* and no other key.
C11_DefaultsOnly ==
  (request.sent /\ DOMAIN args = {}) =>
     /\ DOMAIN request.params = Defaulted(tool)
     /\ \A p \in Defaulted(tool) :
          request.params[p] = Serialized(Default(tool, p))

C11_Witness ==
  /\ request.sent
  /\ DOMAIN args = {}
  /\ tool = "coinmarketcap_id_map_0es7"
  /\ "limit" \notin DOMAIN request.params
  /\ request.params["start"] = PyInt(1)
  /\ request.params["sort"] = PyStr("id")

\* the arguments a without the one for parameter p
Without(a, p) == [q \in DOMAIN a \ {p} |-> a[q]]

\* query maps m and n agree on every key but p
AgreeExcept(m, n, p) ==
  /\ DOMAIN m \ {p} = DOMAIN n \ {p}
  /\ \A k \in DOMAIN m \ {p} : m[k] = n[k]

\* C12: an explicit value for a parameter that has a default is carried in
\* the query map instead of the default, and every other key is as it
\* would be without that argument.
C12_ExplicitOverridesDefault ==
  request.sent =>
    \A p \in DOMAIN args :
      (args[p] # PyNone /\ Default(tool, p) # PyNone) =>
         /\ p \in DOMAIN request.params
         /\ request.params[p] = Serialized(args[p])
         /\ AgreeExcept(request.params, BuildParams(tool, Without(args, p)), p)

C12_Witness ==
  /\ request.sent
  /\ tool = "coinmarketcap_id_map"
  /\ DOMAIN args = {"sort", "symbol"}
  /\ args["sort"] = PyStr("bitcoin")
  /\ request.params["sort"] = PyStr("bitcoin")
  /\ request.params["start"] = PyInt(1)

CredentialHeaders == {"X-CMC_PRO_API_KEY", "Authorization", "X-API-Key"}

\* the three credential headers, all carrying key text k
CarriesCredential(h, k) ==
  /\ DOMAIN h = CredentialHeaders
  /\ h["X-CMC_PRO_API_KEY"] = <<k>>
  /\ h["Authorization"] = <<"Bearer ", k>>
  /\ h["X-API-Key"] = <<k>>

C15_FixedGetUrl ==
  request.sent =>
    /\ request.method = "GET"
    /\ request.url = Catalog[tool].url
    /\ request.url.scheme = "https"
    /\ request.url.host = "pro-api.coinmarketcap.com"

C15_Witness ==
  /\ request.sent
  /\ tool = "quotes_latest"
  /\ DOMAIN args = {"id", "slug"}
  /\ Truthy(api_key)
  /\ request.url.path = "/v1/exchange/quotes/latest"

\* C16: a request for an unregistered name fails with NotFound and makes no
\* outbound call; a request for a registered name runs exactly the handler
\* defined under that name.
C16_DispatchByName ==
  /\ pc = "notfound" => name \notin Tools /\ tool = "none" /\ calls = 0 /\ ~request.sent
  /\ name \in UnknownNames => pc = "notfound"
  /\ (name \in Tools /\ pc # "idle") => pc # "notfound" /\ tool = name
  /\ request.sent => request.url = Catalog[name].url

C16_Witness ==
  /\ pc = "notfound"
  /\ name = "no_such_tool"
  /\ calls = 0

C16_WitnessRegistered ==
  /\ pc = "returned"
  /\ name = "quotes_latest"
  /\ tool = "quotes_latest"
  /\ request.url.path = "/v1/exchange/quotes/latest"

\* C20: an invocation that has reached its handler goes on to its single
\* outbound request, and when that request has ended the handler returns a
\* result to the caller; there is no other way out of the handler.
C20_HandlerAlwaysReturns ==
  [][/\ pc = "handler" => pc' = "inflight"
     /\ pc = "inflight" => (pc' = "returned" /\ result' # NoResult)]_vars

\* the options the payment middleware of the app was added with
D402Layer(a) == a.middleware[1].options

\* C17: the payment configuration handed to the middleware has one entry
\* for every registered tool and no other, each with the price declared on
\* that tool's payment decorator.
C17_PaymentConfigsFromRegistry ==
  app.state = "created" =>
    /\ app.middleware[1].cls = "D402PaymentMiddleware"
    /\ DOMAIN D402Layer(app).tool_payment_configs = Tools
    /\ \A t \in Tools : D402Layer(app).tool_payment_configs[t] = Catalog[t].price

C17_Witness ==
  /\ app.state = "created"
  /\ env.D402_TESTING_MODE = PyStr("TRUE")
  /\ ~Truthy(env.FACILITATOR_URL)
  /\ D402Layer(app).tool_payment_configs["key_info"] = "10000"
  /\ D402Layer(app).tool_payment_configs["listings_latest"] = "10000"

C19_CancelAbandonsCall ==
  [][\A i \in Invs :
       (invs[i].pc = "inflight" /\ invs[i].cancel) => invs'[i].pc # "returned"]_vars

\* alternative identifiers the upstream treats as mutually exclusive
Alternatives == {{"id", "slug"}, {"convert", "convert_id"}, {"id", "symbol"}}

\* C23: arguments that are alternatives of one another are all forwarded in
\* the query map, each with the supplied value, and the outbound request is
\* issued; the handler neither rejects nor alters the argument set.
C23_AlternativesForwarded ==
  (pc \in {"inflight", "returned"} /\ \E s \in Alternatives : s \subseteq DOMAIN args) =>
     /\ request.sent
     /\ calls = 1
     /\ \A p \in DOMAIN args :
          args[p] # PyNone =>
            p \in DOMAIN request.params /\ request.params[p] = Serialized(args[p])
     /\ pc = "returned" => result = HandlerReturn(tool, response)

C23_Witness ==
  /\ pc = "returned"
  /\ tool = "quotes_latest"
  /\ DOMAIN args = {"id", "slug"}
  /\ args["id"] = PyStr("bitcoin")
  /\ args["slug"] = PyStr("bitcoin")
  /\ request.params["id"] = PyStr("bitcoin")
  /\ request.params["slug"] = PyStr("bitcoin")
  /\ response.status = 200
  /\ result = [data |-> <<"Bitcoin">>]

\* the default quotes_latest declares for aux
QuotesLatestAux ==
  PyStr("num_market_pairs,traffic_score,rank,exchange_score,liquidity_score,effective_liquidity_24h")

\* C24: quotes_latest called with id only sends a query of exactly two keys,
\* id with the supplied value and aux with its declared default; when the
\* upstream answers with a success status and a JSON body the invocation
\* returns that body.
C24_QuotesLatestById ==
  (request.sent /\ tool = "quotes_latest" /\ DOMAIN args = {"id"} /\ args["id"] # PyNone) =>
     /\ DOMAIN request.params = {"id", "aux"}
     /\ request.params["id"] = args["id"]
     /\ request.params["aux"] = QuotesLatestAux
     /\ (pc = "returned" /\ SuccessStatus(response) /\ JsonParse(response.text).ok) =>
          result = JsonParse(response.text).value

C24_Witness ==
  /\ pc = "returned"
  /\ tool = "quotes_latest"
  /\ DOMAIN args = {"id"}
  /\ request.params = [k \in {"id", "aux"} |-> IF k = "id" THEN PyStr("bitcoin") ELSE QuotesLatestAux]
  /\ response.status = 200
  /\ response.text = BodyData
  /\ result = [data |-> <<"Bitcoin">>]

\* C29: when credential resolution yields None or the empty text the handler
\* still issues its single outbound request, with no header at all, and
\* what it returns is decided by the upstream outcome alone.
C29_NoKeyStillSends ==
  (pc \in {"inflight", "returned"} /\ api_key \in {PyNone, PyStr("")}) =>
     /\ request.sent
     /\ calls = 1
     /\ DOMAIN request.headers = {}
     /\ pc = "returned" => result = HandlerReturn(tool, response)

C29_Witness ==
  /\ pc = "returned"
  /\ api_key = PyStr("")
  /\ calls = 1
  /\ DOMAIN request.headers = {}
  /\ response.status = 200
  /\ ~IsEnvelope(result)

\* C30: no invocation the upstream answered with a success status and a JSON
\* body returns an object of the error-envelope shape.
C30_SuccessNeverEnvelope ==
  (pc = "returned" /\ SuccessStatus(response) /\ JsonParse(response.text).ok) =>
     ~IsEnvelope(result)

\* the exchange served last was a GET of the health path
HealthServed ==
  /\ http.served
  /\ http.request.path = "/health"
  /\ http.request.method = "GET"

\* C21: a GET of /health is answered 200 with the healthy status whatever
\* credential or payment proof it carries, none included, and no request to
\* the health path is answered 402.
C21_HealthBypassesGate ==
  /\ HealthServed =>
       /\ http.response.status = 200
       /\ http.response.body.status = "healthy"
       /\ http.response.body.service = "coinmcp7-mcp-server"
  /\ (http.served /\ http.request.path = "/health") => http.response.status # 402

C21_Witness ==
  /\ HealthServed
  /\ http.request.auth = NoAuth
  /\ http.response.status = 200
  /\ http.response.body.status = "healthy"
  /\ ~Truthy(API_KEY(env))

\* C25: with D402_TESTING_MODE unset, testing mode is on and application
\* creation succeeds, with or without a facilitator URL.
C25_TestingModeOnByDefault ==
  (env.D402_TESTING_MODE = PyNone /\ app.state # "none") =>
     /\ app.state = "created"
     /\ D402Layer(app).testing_mode

\* C26: every response the payment middleware produces itself, a payment
\* rejection included, passes back through the CORS middleware.
C26_RejectionPassesCors ==
  (http.served /\ http.response.status = 402) =>
     "access-control-allow-origin" \in http.response.headers

\* a facilitator URL is configured: one of the two variables has a value
FacilitatorConfigured(e) ==
  \/ e.FACILITATOR_URL \notin {PyNone, PyStr("")}
  \/ e.D402_FACILITATOR_URL \notin {PyNone, PyStr("")}

\* D402_TESTING_MODE spells true, in any case
TestingEnabled(e) == e.D402_TESTING_MODE \in {PyStr("true"), PyStr("TRUE")}

\* the layers of app a, by class
Layers(a) == {a.middleware[i].cls : i \in DOMAIN a.middleware}

\* C27: create_app_with_middleware fails, with no middleware and no route
\* added and no app returned, exactly when no facilitator URL is configured
\* and testing mode is disabled; otherwise the app it returns has the CORS
\* middleware, the payment middleware and the /health route.
C27_CreateAppFailsExactlyWhen ==
  app.state # "none" =>
    IF ~FacilitatorConfigured(env) /\ ~TestingEnabled(env)
    THEN /\ app.state = "failed"
         /\ app.middleware = << >>
         /\ app.routes = {}
    ELSE /\ app.state = "created"
         /\ Layers(app) = {"CORSMiddleware", "D402PaymentMiddleware"}
         /\ [path |-> "/health", method |-> "GET"] \in app.routes

C27_Witness ==
  /\ app.state = "failed"
  /\ env.FACILITATOR_URL = PyStr("")
  /\ env.D402_FACILITATOR_URL = PyNone
  /\ env.D402_TESTING_MODE = PyStr("1")

C27_WitnessCreated ==
  /\ app.state = "created"
  /\ env.FACILITATOR_URL = PyNone
  /\ env.D402_FACILITATOR_URL = PyStr("https://facilitator.example")
  /\ env.D402_TESTING_MODE = PyStr("false")

\* C22: the registered tools, and for each its name, handler (hence URL and
\* parameters) and price, stay as start-up left them through every tool
\* call, successful or failed, and every health check.
C22_RegistryFixed ==
  /\ DOMAIN mcp = Tools
  /\ \A n \in Tools :
       /\ mcp[n].handler = n
       /\ mcp[n].price = Catalog[n].price
       /\ Url(mcp[n].handler) = Catalog[n].url
       /\ Params(mcp[n].handler) = Catalog[n].params

C22_Witness ==
  /\ invs[1].pc = "returned"
  /\ IsEnvelope(invs[1].result)
  /\ invs[2].pc = "returned"
  /\ ~IsEnvelope(invs[2].result)
  /\ HealthServed
  /\ mcp = McpTools

\* C28: while the outbound request of some call is in flight, a health
\* check can be served and a call that has not arrived yet can start.
C28_InFlightDoesNotBlock ==
  (\E i \in Invs : invs[i].pc = "inflight") =>
     /\ ENABLED HealthCheck
     /\ \A j \in Invs : invs[j].pc = "idle" => ENABLED Arrive(j)
====
